---- MODULE Spec2Model ----
(***************************************************************************)
(* Model of RecursiveNonstationaryCRP (src/rncrp/inference/rncrp.py):      *)
(* construction, and fit as a state machine over the observation index.    *)
(* Tensors are functions over 0-based indices, as in the source.  Reals    *)
(* are exact rationals <<numerator, denominator>> in lowest terms; a zero  *)
(* denominator stands for the non-finite floats (<<0,0>> is NaN, <<1,0>>   *)
(* and <<-1,0>> are the infinities).  Observations have dimension D = 1,   *)
(* and a standard deviation is stored by its square, the covariance.       *)
(***************************************************************************)
EXTENDS Integers, Sequences, FiniteSets, TLC

\* ---------------------------------------------------------------- bounds
\* Largest number of observations of one fit call.
MaxObs == 3
\* Observation times are drawn from 1..MaxTime.
MaxTime == 3
\* Number of fit calls made on one model instance.
MaxFits == 2
\* Largest obs_idx at which the per-step functions are applied in SpecStep.
MaxStepIdx == 2
\* Largest number of customers of one sample_rncrp call.
MaxCustomers == 3
\* Largest number of Monte Carlo samples of one sample_rncrp call.
MaxMcSamples == 2

\* Default of num_coord_ascent_steps_per_obs.
DefaultNumCoordAscentSteps == 3

\* ------------------------------------------------------------- rationals
Abs(x) == IF x < 0 THEN 0 - x ELSE x

Sign(x) == IF x < 0 THEN 0 - 1 ELSE IF x = 0 THEN 0 ELSE 1

RECURSIVE GCD(_, _)
GCD(a, b) == IF b = 0 THEN a ELSE GCD(b, a % b)

\* The rational n/d in lowest terms with a positive denominator; d = 0 gives
\* NaN (n = 0) or an infinity.
Rat(n, d) ==
    IF d = 0 THEN <<Sign(n), 0>>
    ELSE LET g == GCD(Abs(n), Abs(d))
         IN  <<(Sign(d) * n) \div g, Abs(d) \div g>>

Zero == <<0, 1>>
One == <<1, 1>>
NaN == <<0, 0>>

RAdd(a, b) == Rat(a[1] * b[2] + b[1] * a[2], a[2] * b[2])
RSub(a, b) == Rat(a[1] * b[2] - b[1] * a[2], a[2] * b[2])
RMul(a, b) == Rat(a[1] * b[1], a[2] * b[2])
RDiv(a, b) == Rat(a[1] * b[2], a[2] * b[1])
RLeq(a, b) == a[2] # 0 /\ b[2] # 0 /\ a[1] * b[2] <= b[1] * a[2]
RLess(a, b) == a[2] # 0 /\ b[2] # 0 /\ a[1] * b[2] < b[1] * a[2]
IsFinite(a) == a[2] # 0

\* Sum of v[lo..hi] (torch.sum over a slice; empty slice sums to 0).
RECURSIVE RSum(_, _, _)
RSum(v, lo, hi) == IF hi < lo THEN Zero ELSE RAdd(RSum(v, lo, hi - 1), v[hi])

\* A length-n vector / an n-by-m tensor filled with one value (torch.zeros,
\* torch.full).
Full(n, x) == [k \in 0..(n - 1) |-> x]
Full2(n, m, x) == [i \in 0..(n - 1) |-> Full(m, x)]
VLen(v) == Cardinality(DOMAIN v)

\* Python's None, and the exceptions the code raises.
None == [none |-> TRUE]
AssertionError == [exception |-> "AssertionError"]
NotImplementedError == [exception |-> "NotImplementedError"]
IndexError == [exception |-> "IndexError"]
RuntimeError == [exception |-> "RuntimeError"]
ValueError == [exception |-> "ValueError"]

\* assert_torch_no_nan_no_inf_is_real over a vector.
AllFinite(v) == \A k \in DOMAIN v : IsFinite(v[k])

\* ----------------------------------------------------------------- state
VARIABLES
    model,                      \* "none" | "constructed": whether an instance exists
    construct_err,              \* exception raised by __init__, or None
    dynamics_created,           \* whether __init__ created self.dynamics
    cfg,                        \* the instance's attributes set by __init__
    fit_results,                \* self.fit_results
    _fit_results,               \* self._fit_results
    dynamics,                   \* state of self.dynamics
    dyn_calls,                  \* calls made on self.dynamics by the current fit
    fits,                       \* fit calls made so far
    pc,                         \* position of the current fit call
    err,                        \* exception raised by the current fit call, or None
    ret,                        \* value returned by the current fit call
    num_obs,
    observations,
    observations_times,
    time_lookups,               \* indices read from torch_observations_times
    obs_idx,
    vi_idx,
    cluster_assignment_priors,
    num_clusters_posteriors,
    probs,                      \* variational_params['assignments']['probs']
    means,                      \* variational_params['means']['means']
    stddevs,                    \* variational_params['means']['stddevs'], squared
    cluster_assignment_prior,   \* the local of the loop body
    features_call,              \* the outcome of the accessor call after a fit
    prev_fit,                   \* the inputs and the outcome of the previous fit
    sample_pc,                  \* position of the sample_rncrp call
    sample_args,                \* the arguments of the sample_rncrp call
    sample_err,                 \* the exception sample_rncrp raised, or None
    sample_dynamics,            \* the dynamics object sample_rncrp creates
    mc_sample_idx,              \* sample_rncrp: the loop variables
    cstmr_idx,
    new_table_idx,
    pseudo_table_occupancies_by_customer,       \* sample_rncrp: the tables
    one_hot_customer_assignments_by_customer,
    customer_assignments_by_customer,
    num_tables_by_customer

self_vars == <<model, construct_err, dynamics_created, cfg, fit_results, _fit_results>>
dyn_vars == <<dynamics, dyn_calls>>
call_vars == <<fits, pc, err, ret, num_obs, observations, observations_times,
               time_lookups, obs_idx, vi_idx>>
tensor_vars == <<cluster_assignment_priors, num_clusters_posteriors, probs, means,
                 stddevs, cluster_assignment_prior>>
sample_vars == <<sample_pc, sample_args, sample_err, sample_dynamics, mc_sample_idx,
                 cstmr_idx, new_table_idx, pseudo_table_occupancies_by_customer,
                 one_hot_customer_assignments_by_customer,
                 customer_assignments_by_customer, num_tables_by_customer>>
client_vars == <<features_call, prev_fit, sample_vars>>
vars == <<self_vars, dyn_vars, call_vars, tensor_vars, client_vars>>

\* ---------------------------------------------------------- construction
Distributions == {"multivariate_normal", "dirichlet_multinomial", "vonmises_fisher"}

\* feature_prior_params['centroids_prior_cov_prefactor'] and
\* likelihood_params['likelihood_cov_prefactor'] of the generative model.
CentroidsPriorCovPrefactor == 10
LikelihoodCovPrefactor == 1

\* mixing_params['dynamics_str']: the dynamics laws a model is built with.
DynamicsStrs == {"step", "exp"}

\* The keyword arguments outside the signature, which **kwargs collects: the
\* caller names no ordering of the coordinate updates, or names one.
UpdateTypes == {"absent", "sequential", "simultaneous"}

\* The arguments a caller may hand to __init__: the learning rate is None, a
\* positive float or a non-positive float.
InitArgs ==
    [distribution : Distributions,
     alpha : {Rat(0 - 1, 1), Zero, Rat(1, 2), One},
     beta : {0, 1},
     numerically_optimize : BOOLEAN,
     learning_rate : {"None", "positive", "nonpositive"},
     num_coord_ascent_steps_per_obs : {0, 1, DefaultNumCoordAscentSteps},
     dynamics_str : DynamicsStrs,
     coord_ascent_update_type : UpdateTypes]

\* Mutant: the assertion on beta is missing.
InitError_NoBetaCheck(a) ==
    IF ~RLess(Zero, a.alpha) THEN AssertionError
    ELSE IF a.numerically_optimize /\ a.learning_rate # "positive"
         THEN AssertionError
    ELSE None

\* The exception __init__ raises on these arguments, or None.
InitError(a) ==
    IF ~RLess(Zero, a.alpha) THEN AssertionError
    ELSE IF a.beta # 0 THEN AssertionError
    ELSE IF a.numerically_optimize /\ a.learning_rate # "positive"
         THEN AssertionError
    ELSE None

\* Whether __init__ got as far as creating the dynamics object.
InitCreatesDynamics(a) == RLess(Zero, a.alpha) /\ a.beta = 0

\* The attributes __init__ stores.
InitAttributes(a) ==
    [distribution |-> a.distribution,
     alpha |-> a.alpha,
     beta |-> a.beta,
     numerically_optimize |-> a.numerically_optimize,
     learning_rate |-> IF a.numerically_optimize THEN a.learning_rate ELSE "nan",
     num_coord_ascent_steps_per_obs |-> a.num_coord_ascent_steps_per_obs,
     dynamics_str |-> a.dynamics_str]

NoDynamics == [N |-> <<>>, time |-> None]

Construct(a) ==
    /\ model = "none"
    /\ construct_err = None
    /\ construct_err' = InitError(a)
    /\ dynamics_created' = InitCreatesDynamics(a)
    /\ IF InitError(a) = None
       THEN /\ model' = "constructed"
            /\ cfg' = InitAttributes(a)
       ELSE UNCHANGED <<model, cfg>>
    /\ UNCHANGED <<fit_results, _fit_results, dyn_vars, call_vars, tensor_vars,
                   client_vars>>

\* --------------------------------------------------------------- dynamics
\* The factor by which a dynamics law scales the pseudo-occupancies over an
\* interval: 'step' keeps them, 'exp' halves them per unit of time.
DynDecay(dynamics_str, time_start, time_end) ==
    IF dynamics_str = "step" THEN One
    ELSE Rat(1, 2 ^ Abs(time_end[1] - time_start[1]))

\* dynamics.initialize_state(customer_assignment_probs, time)
DynInitializeState(p, time) == [N |-> p, time |-> time]

\* dynamics.run_dynamics(time_start, time_end): the state advanced to time_end.
DynRunDynamics(d, time_start, time_end, decay) ==
    [N |-> [k \in DOMAIN d.N |-> RMul(decay, d.N[k])], time |-> time_end]

\* dynamics.update_state(customer_assignment_probs, time)
DynUpdateState(d, p, time) ==
    [N |-> [k \in DOMAIN d.N |-> RAdd(d.N[k], p[k])], time |-> time]

\* -------------------------------------------------------------- fit: entry
\* The inputs of a fit call: N observations in one dimension (all 0, all 1,
\* or alternating), and their strictly increasing arrival times.
ObservationInputs(n) ==
    {[k \in 0..(n - 1) |-> 0], [k \in 0..(n - 1) |-> 1], [k \in 0..(n - 1) |-> k % 2]}
TimeInputs(n) ==
    {f \in [0..(n - 1) -> 1..MaxTime] :
        \A i, j \in 0..(n - 1) : i < j => f[i] < f[j]}

\* torch.from_numpy(x).float()
ToFloat(v) == [k \in DOMAIN v |-> Rat(v[k], 1)]

\* The stddevs tensor as allocated: (num_obs + 1) rows of max_num_clusters
\* entries sqrt(centroids_prior_cov_prefactor).
InitialStddevs(n) == Full2(n + 1, n, Rat(CentroidsPriorCovPrefactor, 1))

\* Mutant: the 'dirichlet_multinomial' branch is taken as implemented.
DispatchError_DirichletAccepted(distribution) ==
    IF distribution \in {"multivariate_normal", "dirichlet_multinomial"}
    THEN None
    ELSE NotImplementedError

\* Mutant: the final else branch is missing, so an unknown name runs the
\* Gaussian functions.
DispatchError_NoElse(distribution) ==
    IF distribution = "dirichlet_multinomial" THEN NotImplementedError ELSE None

\* The exception the dispatch on the likelihood distribution raises, or None.
DispatchError(distribution) ==
    IF distribution = "multivariate_normal" THEN None ELSE NotImplementedError

\* What a caller holds of a fit call that has ended: its inputs, how it
\* ended, and the tensors as the call left them.
FitOutcome ==
    [observations |-> observations,
     observations_times |-> observations_times,
     pc |-> pc,
     err |-> err,
     ret |-> ret,
     _fit_results |-> _fit_results,
     tensors |-> tensor_vars]

\* The entry of fit, up to the loop.
FitStart(obs, times) ==
    /\ model = "constructed"
    /\ pc \in {"idle", "returned", "raised"}
    /\ fits < MaxFits
    /\ fits' = fits + 1
    /\ num_obs' = VLen(obs)
    /\ observations' = ToFloat(obs)
    /\ observations_times' = ToFloat(times)
    /\ time_lookups' = {}
    /\ dyn_calls' = <<>>
    /\ obs_idx' = 0
    /\ vi_idx' = 0
    /\ ret' = None
    /\ cluster_assignment_priors' = Full2(VLen(obs), VLen(obs), Zero)
    /\ num_clusters_posteriors' = Full2(VLen(obs), VLen(obs), Zero)
    /\ cluster_assignment_prior' = <<>>
    /\ IF DispatchError(cfg.distribution) = None
       THEN /\ probs' = Full2(VLen(obs), VLen(obs), Zero)
            /\ means' = Full2(VLen(obs), VLen(obs), Zero)
            /\ stddevs' = InitialStddevs(VLen(obs))
            /\ pc' = "loop"
            /\ err' = None
       ELSE /\ probs' = <<>>
            /\ means' = <<>>
            /\ stddevs' = <<>>
            /\ pc' = "raised"
            /\ err' = DispatchError(cfg.distribution)
    /\ features_call' = None
    /\ UNCHANGED <<self_vars, dynamics, sample_vars>>

\* A caller calls fit on new inputs.
FitEnter(obs, times) ==
    /\ FitStart(obs, times)
    /\ prev_fit' = None

\* A caller calls fit again on the inputs of the call that has just ended,
\* and keeps the outcome of that call.
FitAgain ==
    /\ pc \in {"returned", "raised"}
    /\ prev_fit' = FitOutcome
    /\ \E obs \in ObservationInputs(num_obs), times \in TimeInputs(num_obs) :
           /\ ToFloat(obs) = observations
           /\ ToFloat(times) = observations_times
           /\ FitStart(obs, times)

\* ------------------------------------------------------- fit: obs_idx = 0
\* Mutant: slot 0 is not written.
FirstTableRow_Unwritten(row) == row

\* The row with 1 at slot 0 ("first customer has to go at first table").
FirstTableRow(row) == [row EXCEPT ![0] = One]

\* Mutant: the new slot's mean is left at its fill value.
InitializeClusterParams_Skipped(m, obs, t) == m

\* initialize_cluster_params_multivariate_normal: the mean of slot obs_idx at
\* step obs_idx is the observation.
InitializeClusterParams(m, obs, t) == [m EXCEPT ![t][t] = obs[t]]

Call(op, t, args) == [op |-> op, obs_idx |-> t, args |-> args]

\* Mutant: a dynamics object that holds a state over the same number of
\* slots is not initialised again.
StepZero_KeepsDynamics ==
    /\ pc = "loop"
    /\ obs_idx = 0
    /\ obs_idx < num_obs
    /\ cluster_assignment_priors' =
           [cluster_assignment_priors EXCEPT ![0] = FirstTableRow(@)]
    /\ probs' = [probs EXCEPT ![0] = FirstTableRow(@)]
    /\ num_clusters_posteriors' =
           [num_clusters_posteriors EXCEPT ![0] = FirstTableRow(@)]
    /\ time_lookups' = time_lookups \cup {0}
    /\ dynamics' = IF VLen(dynamics.N) = num_obs
                   THEN dynamics
                   ELSE DynInitializeState(probs'[0], observations_times[0])
    /\ dyn_calls' = Append(dyn_calls,
           Call("initialize_state", 0, <<probs'[0], observations_times[0]>>))
    /\ means' = InitializeClusterParams(means, observations, 0)
    /\ obs_idx' = 1
    /\ UNCHANGED <<self_vars, client_vars, fits, pc, err, ret, num_obs, observations,
                   observations_times, vi_idx, stddevs, cluster_assignment_prior>>

StepZero ==
    /\ pc = "loop"
    /\ obs_idx = 0
    /\ obs_idx < num_obs
    /\ cluster_assignment_priors' =
           [cluster_assignment_priors EXCEPT ![0] = FirstTableRow(@)]
    /\ probs' = [probs EXCEPT ![0] = FirstTableRow(@)]
    /\ num_clusters_posteriors' =
           [num_clusters_posteriors EXCEPT ![0] = FirstTableRow(@)]
    /\ time_lookups' = time_lookups \cup {0}
    /\ dynamics' = DynInitializeState(probs'[0], observations_times[0])
    /\ dyn_calls' = Append(dyn_calls,
           Call("initialize_state", 0, <<probs'[0], observations_times[0]>>))
    /\ means' = InitializeClusterParams(means, observations, 0)
    /\ obs_idx' = 1
    /\ UNCHANGED <<self_vars, client_vars, fits, pc, err, ret, num_obs, observations,
                   observations_times, vi_idx, stddevs, cluster_assignment_prior>>

\* ---------------------------------------------------- fit: obs_idx > 0
\* The indices of torch_observations_times read for time_start and time_end
\* of the run_dynamics call at step t.
RunDynamicsTimeIdx(t) == <<t, t + 1>>

RunDynamics ==
    /\ pc = "loop"
    /\ 0 < obs_idx
    /\ obs_idx < num_obs
    /\ LET i == RunDynamicsTimeIdx(obs_idx)
       IN  /\ time_lookups' = time_lookups \cup {i[1], i[2]}
           /\ IF i[1] \in 0..(num_obs - 1) /\ i[2] \in 0..(num_obs - 1)
              THEN /\ dynamics' = DynRunDynamics(dynamics, observations_times[i[1]],
                          observations_times[i[2]],
                          DynDecay(cfg.dynamics_str, observations_times[i[1]],
                                   observations_times[i[2]]))
                   /\ dyn_calls' = Append(dyn_calls,
                          Call("run_dynamics", obs_idx,
                               <<observations_times[i[1]], observations_times[i[2]]>>))
                   /\ cluster_assignment_prior' = dynamics'.N
                   /\ pc' = "prior"
                   /\ UNCHANGED <<err, vi_idx>>
              ELSE /\ pc' = "raised"
                   /\ err' = IndexError
                   /\ UNCHANGED <<dynamics, dyn_calls, cluster_assignment_prior, vi_idx>>
    /\ UNCHANGED <<self_vars, client_vars, fits, ret, num_obs, observations, observations_times,
                   obs_idx, cluster_assignment_priors, num_clusters_posteriors,
                   probs, means, stddevs>>

\* Mutant: the slice is prior[: t], one slot early.
AddNewTableProb_OneSlotEarly(prior, alpha, prev_counts, t) ==
    [k \in DOMAIN prior |->
        IF k < t
        THEN RAdd(prior[k], RMul(alpha, prev_counts[k]))
        ELSE prior[k]]

\* Step 1(ii): alpha times the previous step's cluster-count posterior is
\* added to prior[1 : t + 1].
AddNewTableProb(prior, alpha, prev_counts, t) ==
    [k \in DOMAIN prior |->
        IF 1 <= k /\ k <= t
        THEN RAdd(prior[k], RMul(alpha, prev_counts[k - 1]))
        ELSE prior[k]]

\* Step 1(iii): prior /= torch.sum(prior)
Renormalize(v) ==
    LET total == RSum(v, 0, VLen(v) - 1)
    IN  [k \in DOMAIN v |-> RDiv(v[k], total)]

\* Mutant: the renormalised prior is not checked.
PriorError_Unchecked(prior) == None

\* The exception assert_torch_no_nan_no_inf_is_real(cluster_assignment_prior)
\* raises, or None.
PriorError(prior) == IF AllFinite(prior) THEN None ELSE AssertionError

ConstructPrior ==
    /\ pc = "prior"
    /\ LET prior == Renormalize(AddNewTableProb(cluster_assignment_prior, cfg.alpha,
                        num_clusters_posteriors[obs_idx - 1], obs_idx))
       IN  /\ cluster_assignment_prior' = prior
           /\ IF PriorError(prior) = None
              THEN /\ cluster_assignment_priors' =
                          [cluster_assignment_priors EXCEPT ![obs_idx] = prior]
                   /\ pc' = "init"
                   /\ UNCHANGED err
              ELSE /\ pc' = "raised"
                   /\ err' = PriorError(prior)
                   /\ UNCHANGED cluster_assignment_priors
    /\ UNCHANGED <<self_vars, client_vars, dyn_vars, fits, ret, num_obs, observations,
                   observations_times, time_lookups, obs_idx, vi_idx,
                   num_clusters_posteriors, probs, means, stddevs>>

\* Mutant: the copy runs backwards, row t - 1 is overwritten with row t.
CopyPreviousRow_Backwards(tensor, t) == [tensor EXCEPT ![t - 1] = tensor[t]]

\* Step 2(i): row t of a parameter tensor starts as its row t - 1.
CopyPreviousRow(tensor, t) == [tensor EXCEPT ![t] = tensor[t - 1]]

InitVariationalParams ==
    /\ pc = "init"
    /\ means' = InitializeClusterParams(CopyPreviousRow(means, obs_idx),
                                        observations, obs_idx)
    /\ stddevs' = CopyPreviousRow(stddevs, obs_idx)
    /\ probs' = [probs EXCEPT ![obs_idx] = cluster_assignment_prior]
    /\ vi_idx' = 0
    /\ pc' = "ascent"
    /\ UNCHANGED <<self_vars, client_vars, dyn_vars, fits, err, ret, num_obs, observations,
                   observations_times, time_lookups, obs_idx,
                   cluster_assignment_priors, num_clusters_posteriors,
                   cluster_assignment_prior>>

\* ------------------------------------------------- fit: coordinate ascent
\* sigma_obs_squared, the likelihood_cov_prefactor handed to both updates.
SigmaObsSquared == Rat(LikelihoodCovPrefactor, 1)

\* The size of two dimensions broadcast together, or -1 if they cannot be.
Broadcast(a, b) ==
    IF a = b THEN a ELSE IF a = 1 THEN b ELSE IF b = 1 THEN a ELSE 0 - 1

\* The number of slots each operand of the mean update ranges over at step
\* t of n observations: term_one is built from the slices [: t + 1] of row
\* t - 1, the assignment probabilities are probs[obs_idx, :], and the
\* observation is repeated obs_idx times.
MeanUpdateOperandRows(n, t) ==
    [term_one |-> t + 1, probs |-> n, observation |-> t]

\* The number of rows of new_means_means, or -1 if an operand pair of the mean
\* update does not fit: term_two pairs probs[obs_idx, :] (n rows) with the
\* observation repeated t times; it is added to term_one (t + 1 rows) and
\* multiplied by means_covs (t + 1 rows).
NewMeansRows(n, t) ==
    LET term_two == Broadcast(n, t)
        summed == IF term_two < 0 THEN term_two ELSE Broadcast(t + 1, term_two)
    IN  IF summed < 0 THEN summed ELSE Broadcast(t + 1, summed)

\* Step 1 for one slot: the covariance inv(inv(prev_cov) + prob / sigma * I).
NewCov(prev_cov, prob, sigma) ==
    RDiv(One, RAdd(RDiv(One, prev_cov), RDiv(prob, sigma)))

\* Step 2 for one slot:
\* new_cov * (inv(prev_cov) * prev_mean + prob * observation / sigma).
NewMean(prev_cov, prev_mean, prob, obs, sigma) ==
    RMul(NewCov(prev_cov, prob, sigma),
         RAdd(RMul(RDiv(One, prev_cov), prev_mean), RDiv(RMul(prob, obs), sigma)))

\* Mutant: the slices of the previous row and of probs reach one slot
\* further, [: obs_idx + 2].
OptimizeClusterParamsStddevs_OneSlotFurther(st, pr, t, sigma) ==
    [st EXCEPT ![t] = [k \in DOMAIN st[t] |->
        IF k <= t + 1 THEN NewCov(st[t - 1][k], pr[t][k], sigma) ELSE st[t][k]]]

\* Mutant: the previous covariance is read from row t, which an earlier pass
\* has written.
OptimizeClusterParamsStddevs_FromCurrentRow(st, pr, t, sigma) ==
    [st EXCEPT ![t] = [k \in DOMAIN st[t] |->
        IF k <= t THEN NewCov(st[t][k], pr[t][k], sigma) ELSE st[t][k]]]

\* optimize_cluster_params_multivariate_normal, Step 1: stddevs[t, 0..t] are
\* rewritten from row t - 1 and probs[t].
OptimizeClusterParamsStddevs(st, pr, t, sigma) ==
    [st EXCEPT ![t] = [k \in DOMAIN st[t] |->
        IF k <= t THEN NewCov(st[t - 1][k], pr[t][k], sigma) ELSE st[t][k]]]

\* optimize_cluster_params_multivariate_normal, Step 2: means[t, 0..t] are
\* rewritten from row t - 1, probs[t] and the observation.
OptimizeClusterParamsMeans(me, st, pr, obs, t, sigma) ==
    [me EXCEPT ![t] = [k \in DOMAIN me[t] |->
        IF k <= t
        THEN NewMean(st[t - 1][k], me[t - 1][k], pr[t][k], obs[t], sigma)
        ELSE me[t][k]]]

\* The exception optimize_cluster_params_multivariate_normal raises, or None.
OptimizeClusterParamsError(st, pr, n, t, sigma) ==
    IF ~RLess(Zero, sigma) THEN AssertionError
    ELSE IF ~AllFinite(OptimizeClusterParamsStddevs(st, pr, t, sigma)[t])
         THEN AssertionError
    ELSE IF NewMeansRows(n, t) \notin {1, t + 1} THEN RuntimeError
    ELSE None

\* The values exp(term_two + term_three) may take for a slot: the likelihood
\* factor of the softmax is a positive real.
Likelihoods == {Rat(1, 2), Rat(2, 1)}

\* Mutant: term_one, the log of the prior, is left out of the softmax.
OptimizeClusterAssignments_NoPrior(prior, lik) ==
    LET total == RSum(lik, 0, VLen(prior) - 1)
    IN  [k \in DOMAIN prior |-> RDiv(lik[k], total)]

\* optimize_cluster_assignments_multivariate_normal:
\* softmax(log(prior) + term_two + term_three) over all slots, which is
\* prior[k] * lik[k] / sum_j prior[j] * lik[j].
OptimizeClusterAssignments(prior, lik) ==
    LET weighted == [k \in DOMAIN prior |-> RMul(prior[k], lik[k])]
        total == RSum(weighted, 0, VLen(prior) - 1)
    IN  [k \in DOMAIN prior |-> RDiv(weighted[k], total)]

\* The checks on the softmax output: finite, and every entry in [0, 1].
ValidBernoulliProbs(p) ==
    /\ AllFinite(p)
    /\ \A k \in DOMAIN p : RLeq(Zero, p[k]) /\ RLeq(p[k], One)

Raise(e) ==
    /\ pc' = "raised"
    /\ err' = e

\* Mutant: the flag is not looked at.
NumericalOptimizationError_Ignored(numerically_optimize) == None

\* The exception a pass raises before it updates anything, or None: the
\* numerically optimized path is not implemented.
NumericalOptimizationError(numerically_optimize) ==
    IF numerically_optimize THEN NotImplementedError ELSE None

\* One pass of the coordinate ascent loop.
CoordAscentPass(lik) ==
    /\ pc = "ascent"
    /\ vi_idx < cfg.num_coord_ascent_steps_per_obs
    /\ IF NumericalOptimizationError(cfg.numerically_optimize) # None
       THEN /\ Raise(NumericalOptimizationError(cfg.numerically_optimize))
            /\ UNCHANGED <<vi_idx, probs, means, stddevs>>
       ELSE LET e == OptimizeClusterParamsError(stddevs, probs, num_obs, obs_idx,
                                                SigmaObsSquared)
                st == OptimizeClusterParamsStddevs(stddevs, probs, obs_idx,
                                                   SigmaObsSquared)
                me == OptimizeClusterParamsMeans(means, stddevs, probs, observations,
                                                 obs_idx, SigmaObsSquared)
                post == OptimizeClusterAssignments(cluster_assignment_prior, lik)
            IN  IF e # None
                THEN /\ Raise(e)
                     /\ stddevs' = IF RLess(Zero, SigmaObsSquared) THEN st ELSE stddevs
                     /\ UNCHANGED <<vi_idx, probs, means>>
                ELSE IF ~AllFinite(me[obs_idx]) \/ ~ValidBernoulliProbs(post)
                THEN /\ Raise(AssertionError)
                     /\ stddevs' = st
                     /\ means' = IF AllFinite(me[obs_idx]) THEN me ELSE means
                     /\ UNCHANGED <<vi_idx, probs>>
                ELSE /\ stddevs' = st
                     /\ means' = me
                     /\ probs' = [probs EXCEPT ![obs_idx] = post]
                     /\ vi_idx' = vi_idx + 1
                     /\ UNCHANGED <<pc, err>>
    /\ UNCHANGED <<self_vars, client_vars, dyn_vars, fits, ret, num_obs, observations,
                   observations_times, time_lookups, obs_idx,
                   cluster_assignment_priors, num_clusters_posteriors,
                   cluster_assignment_prior>>

\* ------------------------------------------- fit: cluster-count posterior
\* torch.cumsum(posterior[: t + 1])[k]
CumSum(posterior, k) == RSum(posterior, 0, k)

\* Mutant: the complement is taken of the cumulative sum one slot later.
NumClustersPosteriorUpdate_Shifted(row, posterior, prev, t) ==
    [k \in DOMAIN row |->
        RAdd(RAdd(row[k],
                  IF k <= t - 1
                  THEN RMul(RSum(posterior, 0, k), prev[k])
                  ELSE Zero),
             IF 1 <= k /\ k <= t
             THEN RMul(RSub(One, RSum(posterior, 0, k)), prev[k - 1])
             ELSE Zero)]

\* Step 4: row t of num_clusters_posteriors after the two += of the O(t)
\* update, from the step's assignment posterior and row t - 1.
NumClustersPosteriorUpdate(row, posterior, prev, t) ==
    [k \in DOMAIN row |->
        RAdd(RAdd(row[k],
                  IF k <= t - 1
                  THEN RMul(CumSum(posterior, k), prev[k])
                  ELSE Zero),
             IF 1 <= k /\ k <= t
             THEN RMul(RSub(One, CumSum(posterior, k - 1)), prev[k - 1])
             ELSE Zero)]

UpdateNumClusters ==
    /\ pc = "ascent"
    /\ vi_idx >= cfg.num_coord_ascent_steps_per_obs
    /\ num_clusters_posteriors' = [num_clusters_posteriors EXCEPT ![obs_idx] =
           NumClustersPosteriorUpdate(@, probs[obs_idx],
                                      num_clusters_posteriors[obs_idx - 1], obs_idx)]
    /\ pc' = "update"
    /\ UNCHANGED <<self_vars, client_vars, dyn_vars, fits, err, ret, num_obs, observations,
                   observations_times, time_lookups, obs_idx, vi_idx,
                   cluster_assignment_priors, probs, means, stddevs,
                   cluster_assignment_prior>>

\* Mutant: the dynamics is handed the time of the previous observation.
UpdateState_PreviousTime ==
    /\ pc = "update"
    /\ time_lookups' = time_lookups \cup {obs_idx - 1}
    /\ dynamics' = DynUpdateState(dynamics, probs[obs_idx],
                                  observations_times[obs_idx - 1])
    /\ dyn_calls' = Append(dyn_calls,
           Call("update_state", obs_idx,
                <<probs[obs_idx], observations_times[obs_idx - 1]>>))
    /\ obs_idx' = obs_idx + 1
    /\ pc' = "loop"
    /\ UNCHANGED <<self_vars, client_vars, fits, err, ret, num_obs, observations,
                   observations_times, vi_idx, tensor_vars>>

\* Step 5: the step's assignment posterior is committed to the dynamics.
UpdateState ==
    /\ pc = "update"
    /\ time_lookups' = time_lookups \cup {obs_idx}
    /\ dynamics' = DynUpdateState(dynamics, probs[obs_idx], observations_times[obs_idx])
    /\ dyn_calls' = Append(dyn_calls,
           Call("update_state", obs_idx,
                <<probs[obs_idx], observations_times[obs_idx]>>))
    /\ obs_idx' = obs_idx + 1
    /\ pc' = "loop"
    /\ UNCHANGED <<self_vars, client_vars, fits, err, ret, num_obs, observations,
                   observations_times, vi_idx, tensor_vars>>

\* ------------------------------------------------------------ fit: return
\* The result bundle assembled after the loop.
ResultBundle ==
    [cluster_assignment_priors |-> cluster_assignment_priors,
     cluster_assignment_posteriors |-> probs,
     num_clusters_posteriors |-> num_clusters_posteriors,
     parameters |-> [means |-> means, stddevs |-> stddevs]]

\* The value of the return statement.
ReturnValue == fit_results

\* Mutant: the bundle is stored and returned from inside the loop, once the
\* first observation is processed.
FitReturn_InsideLoop ==
    /\ pc = "loop"
    /\ obs_idx >= 1
    /\ _fit_results' = ResultBundle
    /\ ret' = ReturnValue
    /\ pc' = "returned"
    /\ UNCHANGED <<model, construct_err, dynamics_created, cfg, fit_results,
                   client_vars, dyn_vars, fits, err, num_obs, observations, observations_times,
                   time_lookups, obs_idx, vi_idx, tensor_vars>>

FitReturn ==
    /\ pc = "loop"
    /\ obs_idx = num_obs
    /\ _fit_results' = ResultBundle
    /\ ret' = ReturnValue
    /\ pc' = "returned"
    /\ UNCHANGED <<model, construct_err, dynamics_created, cfg, fit_results,
                   client_vars, dyn_vars, fits, err, num_obs, observations, observations_times,
                   time_lookups, obs_idx, vi_idx, tensor_vars>>

\* ------------------------------------------------- after fit: accessor
\* features_after_last_obs(): the method of the class that answers for
\* the centroids after the last observation.  Its body is one raise.
FeaturesAfterLastObs ==
    /\ model = "constructed"
    /\ pc = "returned"
    /\ features_call = None
    /\ features_call' = [ret |-> None, err |-> NotImplementedError]
    /\ UNCHANGED <<self_vars, dyn_vars, call_vars, tensor_vars, prev_fit, sample_vars>>

\* ------------------------------------------------------- sample_rncrp
\* No sample_rncrp call has been made.
SampleNotCalled ==
    /\ sample_pc = "idle"
    /\ sample_args = None
    /\ sample_err = None
    /\ sample_dynamics = NoDynamics
    /\ mc_sample_idx = 0
    /\ cstmr_idx = 0
    /\ new_table_idx = 0
    /\ pseudo_table_occupancies_by_customer = <<>>
    /\ one_hot_customer_assignments_by_customer = <<>>
    /\ customer_assignments_by_customer = <<>>
    /\ num_tables_by_customer = <<>>

\* The variables sample_rncrp does not touch.
inference_vars == <<self_vars, dyn_vars, call_vars, tensor_vars, features_call, prev_fit>>

\* The arguments of a sample_rncrp call.
SampleArgs ==
    [num_mc_samples : 1..MaxMcSamples,
     num_customer : 1..MaxCustomers,
     alpha : {Zero, Rat(1, 2), One},
     beta : {0 - 1, 0, 1},
     dynamics_str : DynamicsStrs]

\* The exception the assertions on the arguments raise, or None.
SampleArgsError(a) ==
    IF ~RLess(Zero, a.alpha) THEN AssertionError
    ELSE IF a.beta < 0 THEN AssertionError
    ELSE None

\* time_sampling_fn: customer c arrives at time 1 + c.
CustomerTime(c) == Rat(1 + c, 1)

\* A table of num_mc_samples by num_customer by num_customer zeros, with x
\* written at [:, 0, 0].
SampleTable(a, zero, x) ==
    [m \in 0..(a.num_mc_samples - 1) |->
        [c \in 0..(a.num_customer - 1) |->
            [k \in 0..(a.num_customer - 1) |-> IF c = 0 /\ k = 0 THEN x ELSE zero]]]

\* The call up to the loop over the Monte Carlo samples.
SampleEnter(a) ==
    /\ sample_pc = "idle"
    /\ sample_args' = a
    /\ sample_err' = SampleArgsError(a)
    /\ IF SampleArgsError(a) # None
       THEN /\ sample_pc' = "raised"
            /\ UNCHANGED <<pseudo_table_occupancies_by_customer,
                           one_hot_customer_assignments_by_customer,
                           customer_assignments_by_customer, num_tables_by_customer>>
       ELSE /\ sample_pc' = "mc"
            /\ pseudo_table_occupancies_by_customer' = SampleTable(a, Zero, One)
            /\ one_hot_customer_assignments_by_customer' = SampleTable(a, 0, 1)
            /\ num_tables_by_customer' = SampleTable(a, 0, 1)
            /\ customer_assignments_by_customer' =
                   [m \in 0..(a.num_mc_samples - 1) |-> Full(a.num_customer, 0)]
    /\ UNCHANGED <<inference_vars, sample_dynamics, mc_sample_idx, cstmr_idx,
                   new_table_idx>>

\* The head of the loop over the Monte Carlo samples: a sample starts with
\* one table open and the dynamics initialised on customer 0, or the call
\* returns.
SampleStartMc ==
    /\ sample_pc = "mc"
    /\ IF mc_sample_idx < sample_args.num_mc_samples
       THEN /\ new_table_idx' = 1
            /\ sample_dynamics' = DynInitializeState(
                   ToFloat(one_hot_customer_assignments_by_customer[mc_sample_idx][0]),
                   CustomerTime(0))
            /\ cstmr_idx' = 1
            /\ sample_pc' = "customer"
       ELSE /\ sample_pc' = "returned"
            /\ UNCHANGED <<new_table_idx, sample_dynamics, cstmr_idx>>
    /\ UNCHANGED <<inference_vars, sample_args, sample_err, mc_sample_idx,
                   pseudo_table_occupancies_by_customer,
                   one_hot_customer_assignments_by_customer,
                   customer_assignments_by_customer, num_tables_by_customer>>

\* Mutant: a table is opened for every customer.
NewTableIdx_AlwaysGrows(idx, customer_assignment) == idx + 1

\* new_table_idx = max(new_table_idx, customer_assignment + 1)
NewTableIdx(idx, customer_assignment) ==
    IF idx >= customer_assignment + 1 THEN idx ELSE customer_assignment + 1

\* The probabilities customer cstmr_idx is sampled from: the forecast with
\* alpha written at slot new_table_idx, normalised.
SampleProbs(forecast) ==
    Renormalize([forecast EXCEPT ![new_table_idx] = sample_args.alpha])

\* The exception the body of the customer loop raises when the sampled
\* table is customer_assignment, or None: the write of alpha and the write of
\* the table count must be in range, the probabilities handed to
\* np.random.choice must sum to 1, and the assertion must hold.
SampleCustomerError(forecast, customer_assignment) ==
    IF new_table_idx \notin DOMAIN forecast THEN IndexError
    ELSE IF RSum(SampleProbs(forecast), 0, new_table_idx) # One THEN ValueError
    ELSE IF ~(customer_assignment < cstmr_idx + 1) THEN AssertionError
    ELSE IF NewTableIdx(new_table_idx, customer_assignment) - 1 \notin DOMAIN forecast
         THEN IndexError
    ELSE None

\* One pass of the loop over the customers, with the table np.random.choice
\* returns; after the last customer the next Monte Carlo sample is due.
SampleCustomer(customer_assignment) ==
    /\ sample_pc = "customer"
    /\ IF cstmr_idx < sample_args.num_customer
       THEN LET m == mc_sample_idx
                c == cstmr_idx
                state == DynRunDynamics(sample_dynamics, CustomerTime(c - 1),
                             CustomerTime(c),
                             DynDecay(sample_args.dynamics_str, CustomerTime(c - 1),
                                      CustomerTime(c)))
                e == SampleCustomerError(state.N, customer_assignment)
                idx == NewTableIdx(new_table_idx, customer_assignment)
            IN  /\ new_table_idx \in DOMAIN state.N =>
                       /\ customer_assignment \in 0..new_table_idx
                       /\ RLess(Zero, SampleProbs(state.N)[customer_assignment])
                /\ IF e # None
                   THEN /\ sample_pc' = "raised"
                        /\ sample_err' = e
                        /\ sample_dynamics' = state
                        /\ pseudo_table_occupancies_by_customer' =
                               [pseudo_table_occupancies_by_customer EXCEPT
                                   ![m][c] = state.N]
                        /\ UNCHANGED <<cstmr_idx, new_table_idx,
                                       one_hot_customer_assignments_by_customer,
                                       customer_assignments_by_customer,
                                       num_tables_by_customer>>
                   ELSE /\ one_hot_customer_assignments_by_customer' =
                               [one_hot_customer_assignments_by_customer EXCEPT
                                   ![m][c][customer_assignment] = 1]
                        /\ new_table_idx' = idx
                        /\ num_tables_by_customer' =
                               [num_tables_by_customer EXCEPT ![m][c][idx - 1] = 1]
                        /\ customer_assignments_by_customer' =
                               [customer_assignments_by_customer EXCEPT
                                   ![m][c] = customer_assignment]
                        /\ sample_dynamics' = DynUpdateState(state,
                               ToFloat(one_hot_customer_assignments_by_customer'[m][c]),
                               CustomerTime(c))
                        /\ pseudo_table_occupancies_by_customer' =
                               [pseudo_table_occupancies_by_customer EXCEPT
                                   ![m][c] = sample_dynamics'.N]
                        /\ cstmr_idx' = c + 1
                        /\ UNCHANGED <<sample_pc, sample_err>>
                /\ UNCHANGED mc_sample_idx
       ELSE /\ customer_assignment = 0
            /\ mc_sample_idx' = mc_sample_idx + 1
            /\ sample_pc' = "mc"
            /\ UNCHANGED <<sample_err, sample_dynamics, cstmr_idx, new_table_idx,
                           pseudo_table_occupancies_by_customer,
                           one_hot_customer_assignments_by_customer,
                           customer_assignments_by_customer, num_tables_by_customer>>
    /\ UNCHANGED <<inference_vars, sample_args>>

\* ---------------------------------------------------------- specification
Init ==
    /\ model = "none"
    /\ construct_err = None
    /\ dynamics_created = FALSE
    /\ cfg = None
    /\ fit_results = None
    /\ _fit_results = None
    /\ dynamics = NoDynamics
    /\ dyn_calls = <<>>
    /\ fits = 0
    /\ pc = "idle"
    /\ err = None
    /\ ret = None
    /\ num_obs = 0
    /\ observations = <<>>
    /\ observations_times = <<>>
    /\ time_lookups = {}
    /\ obs_idx = 0
    /\ vi_idx = 0
    /\ cluster_assignment_priors = <<>>
    /\ num_clusters_posteriors = <<>>
    /\ probs = <<>>
    /\ means = <<>>
    /\ stddevs = <<>>
    /\ cluster_assignment_prior = <<>>
    /\ features_call = None
    /\ prev_fit = None
    /\ SampleNotCalled

Next ==
    \/ \E a \in InitArgs : Construct(a)
    \/ \E n \in 1..MaxObs : \E obs \in ObservationInputs(n), times \in TimeInputs(n) :
           FitEnter(obs, times)
    \/ FitAgain
    \/ StepZero
    \/ RunDynamics
    \/ ConstructPrior
    \/ InitVariationalParams
    \/ \E lik \in [0..(num_obs - 1) -> Likelihoods] : CoordAscentPass(lik)
    \/ UpdateNumClusters
    \/ UpdateState
    \/ FitReturn
    \/ FeaturesAfterLastObs

Spec == Init /\ [][Next]_vars

\* ------------------------------------------ the functions of one step alone
\* SpecStep applies the functions of one step t >= 1 to drawn inputs: the
\* prior construction, the parameter initialisation,
\* optimize_cluster_assignments_multivariate_normal on its own, and the
\* cluster-count update.  The inputs are a forecast of the dynamics with mass
\* on slots 0..t-1 only, and a cluster-count posterior of step t - 1.

\* The probabilities the drawn vectors are made of.
Quarters == {Rat(i, 4) : i \in 0..4}

\* The distributions over slots 0..s, as length-n vectors.
SlotDistributions(s, n) ==
    {v \in [0..(n - 1) -> Quarters] :
        /\ \A k \in 0..(n - 1) : k > s => v[k] = Zero
        /\ RSum(v, 0, n - 1) = One}

\* The forecasts over slots 0..s, as length-n vectors.
Forecasts(s, n) ==
    {v \in [0..(n - 1) -> {Zero, Rat(1, 2), One}] :
        \A k \in 0..(n - 1) : k > s => v[k] = Zero}

\* The forecasts of a dynamics gone wrong, under which the prior of a model
\* with concentration alpha has no finite, non-zero sum: slot 0 holds NaN,
\* infinity, or -alpha.
DegenerateForecasts(alpha, n) ==
    {[k \in 0..(n - 1) |-> IF k = 0 THEN x ELSE Zero] :
        x \in {NaN, Rat(1, 0), RSub(Zero, alpha)}}

\* The attributes of a model the step functions run under.
StepAttributes(alpha, passes) ==
    [distribution |-> "multivariate_normal",
     alpha |-> alpha,
     beta |-> 0,
     numerically_optimize |-> FALSE,
     learning_rate |-> "nan",
     num_coord_ascent_steps_per_obs |-> passes,
     dynamics_str |-> "step"]

\* Rows 0..t-1 of an n-by-n tensor hold 1 at slot 0, but for row t - 1,
\* which is given.
EarlierRows(n, t, last) ==
    [i \in 0..(n - 1) |->
        IF i = t - 1 THEN last
        ELSE IF i < t THEN FirstTableRow(Full(n, Zero))
        ELSE Full(n, Zero)]

InitStep ==
    \E n \in 2..(MaxStepIdx + 1), t \in 1..MaxStepIdx :
    \E alpha \in {Rat(1, 2), One}, passes \in {1, 2} :
        /\ t < n
        /\ \E forecast \in Forecasts(t - 1, n) \cup DegenerateForecasts(alpha, n),
              prev \in SlotDistributions(t - 1, n) :
            /\ model = "constructed"
            /\ construct_err = None
            /\ dynamics_created = TRUE
            /\ cfg = StepAttributes(alpha, passes)
            /\ fit_results = None
            /\ _fit_results = None
            /\ dynamics = [N |-> forecast, time |-> Rat(t, 1)]
            /\ dyn_calls = <<>>
            /\ fits = 1
            /\ pc = "prior"
            /\ err = None
            /\ ret = None
            /\ num_obs = n
            /\ observations = Full(n, One)
            /\ observations_times = [k \in 0..(n - 1) |-> Rat(k + 1, 1)]
            /\ time_lookups = {}
            /\ obs_idx = t
            /\ vi_idx = 0
            /\ cluster_assignment_priors =
                   EarlierRows(n, t, FirstTableRow(Full(n, Zero)))
            /\ num_clusters_posteriors = EarlierRows(n, t, prev)
            /\ probs = EarlierRows(n, t, FirstTableRow(Full(n, Zero)))
            /\ means = EarlierRows(n, t, FirstTableRow(Full(n, Zero)))
            /\ stddevs = InitialStddevs(n)
            /\ cluster_assignment_prior = forecast
            /\ features_call = None
            /\ prev_fit = None
            /\ SampleNotCalled

\* optimize_cluster_assignments_multivariate_normal applied to the step's
\* prior: row obs_idx of probs is rewritten, or an assertion fails.
ApplyOptimizeClusterAssignments(lik) ==
    /\ pc = "ascent"
    /\ vi_idx < cfg.num_coord_ascent_steps_per_obs
    /\ LET post == OptimizeClusterAssignments(cluster_assignment_prior, lik)
       IN  IF ValidBernoulliProbs(post)
           THEN /\ probs' = [probs EXCEPT ![obs_idx] = post]
                /\ vi_idx' = vi_idx + 1
                /\ UNCHANGED <<pc, err>>
           ELSE /\ Raise(AssertionError)
                /\ UNCHANGED <<vi_idx, probs>>
    /\ UNCHANGED <<self_vars, client_vars, dyn_vars, fits, ret, num_obs, observations,
                   observations_times, time_lookups, obs_idx,
                   cluster_assignment_priors, num_clusters_posteriors, means,
                   stddevs, cluster_assignment_prior>>

NextStep ==
    \/ ConstructPrior
    \/ InitVariationalParams
    \/ \E lik \in [0..(num_obs - 1) -> Likelihoods] :
           ApplyOptimizeClusterAssignments(lik)
    \/ UpdateNumClusters
    \/ UpdateState

SpecStep == InitStep /\ [][NextStep]_vars

\* ------------------------------------------------ sample_rncrp on its own
NextSample ==
    \/ \E a \in SampleArgs : SampleEnter(a)
    \/ SampleStartMc
    \/ \E customer_assignment \in 0..MaxCustomers :
           SampleCustomer(customer_assignment)

SpecSample == Init /\ [][NextSample]_vars

\* ------------------------------------------------------------------ claims
\* A fit call is in progress or has ended.
FitCalled == pc # "idle"

\* The length-n row with 1 at slot 0 and 0 elsewhere.
OneHotZero(n) == [k \in 0..(n - 1) |-> IF k = 0 THEN One ELSE Zero]

\* The calls of one operation made on the dynamics by the current fit.
CallsOf(op) == {i \in 1..Len(dyn_calls) : dyn_calls[i].op = op}

\* C1: for N >= 2 observations every step of fit, the final step t = N - 1
\* included, reads the observation times at indices in 0..N-1 only: no step
\* makes an out-of-bounds time lookup.
C1_NoOutOfBoundsTimeLookup ==
    /\ \A i \in time_lookups : i \in 0..(num_obs - 1)
    /\ err # IndexError

\* C2: a fit that runs to completion returns the assembled result bundle, the
\* one the model keeps in _fit_results, and never None.
C2_ReturnsResultBundle ==
    pc = "returned" => (ret = _fit_results /\ ret # None)

\* C3: at every step t > 0 the forecast is requested with
\* run_dynamics(time_start = time[t-1], time_end = time[t]).
C3_ForecastOverPreviousInterval ==
    \A i \in CallsOf("run_dynamics") :
        dyn_calls[i].args = <<observations_times[dyn_calls[i].obs_idx - 1],
                              observations_times[dyn_calls[i].obs_idx]>>

\* C4: a fit of a single observation on a multivariate_normal model never raises; it makes the t = 0 step
\* only (one initialize_state call, no run_dynamics, no update_state, no
\* coordinate-ascent pass) and ends with the t = 0 result: one-hot prior,
\* posterior and cluster-count rows, the observation as the mean of slot 0 and
\* the prior standard deviation.
C4_SingleObservationFit ==
    (FitCalled /\ num_obs = 1 /\ cfg.distribution = "multivariate_normal") =>
        /\ pc \in {"loop", "returned"}
        /\ err = None
        /\ vi_idx = 0
        /\ CallsOf("run_dynamics") = {}
        /\ CallsOf("update_state") = {}
        /\ Len(dyn_calls) = obs_idx
        /\ obs_idx \in {0, 1}
        /\ pc = "returned" =>
            /\ obs_idx = 1
            /\ dyn_calls[1].op = "initialize_state"
            /\ _fit_results.cluster_assignment_priors = Full2(1, 1, One)
            /\ _fit_results.cluster_assignment_posteriors = Full2(1, 1, One)
            /\ _fit_results.num_clusters_posteriors = Full2(1, 1, One)
            /\ _fit_results.parameters.means[0][0] = observations[0]
            /\ _fit_results.parameters.stddevs = InitialStddevs(1)

C4_Witness ==
    /\ num_obs = 1
    /\ pc = "returned"
    /\ observations[0] = One
    /\ cfg.numerically_optimize

\* C5: after step t = 0, rows 0 of the assignment prior and posterior are
\* one-hot on slot 0, row 0 of the cluster-count posterior is one-hot on
\* count 1, and the dynamics was initialised with that one-hot assignment at
\* time[0].
C5_StepZeroOneHot ==
    (FitCalled /\ obs_idx >= 1) =>
        /\ cluster_assignment_priors[0] = OneHotZero(num_obs)
        /\ probs[0] = OneHotZero(num_obs)
        /\ num_clusters_posteriors[0] = OneHotZero(num_obs)
        /\ dyn_calls[1] = Call("initialize_state", 0,
                               <<OneHotZero(num_obs), observations_times[0]>>)
        /\ CallsOf("initialize_state") = {1}

C5_Witness ==
    /\ FitCalled
    /\ obs_idx = 1
    /\ num_obs = 3
    /\ pc = "loop"
    /\ cfg.alpha = Rat(1, 2)

\* The steps whose assignment posterior row is in place: the finished steps,
\* and the current one from its initialisation at the prior onwards.
PosteriorRows ==
    {t \in 0..(num_obs - 1) :
        t < obs_idx \/ (t = obs_idx /\ pc \in {"ascent", "update"})}

\* The steps whose cluster-count posterior row is in place.
CountRows ==
    {t \in 0..(num_obs - 1) : t < obs_idx \/ (t = obs_idx /\ pc = "update")}

\* A row that is a distribution over slots 0..t: entries in [0, 1], summing
\* to 1, and zero on every slot > t.
IsDistributionOver(row, t) ==
    /\ \A k \in DOMAIN row : RLeq(Zero, row[k]) /\ RLeq(row[k], One)
    /\ RSum(row, 0, t) = One
    /\ \A k \in DOMAIN row : k > t => row[k] = Zero

\* C6: the assignment posterior recorded at row t has every entry in [0, 1],
\* sums to 1 over slots 0..t and has no mass on slots > t.
C6_AssignmentPosteriorIsDistribution ==
    FitCalled => \A t \in PosteriorRows : IsDistributionOver(probs[t], t)

\* A step t = 2 whose softmax moved the posterior off the prior and left mass
\* on all three slots.
C6_Witness ==
    /\ pc = "update"
    /\ obs_idx = 2
    /\ probs[2] # cluster_assignment_prior
    /\ \A k \in 0..2 : RLess(Zero, probs[2][k])

\* C7: the cluster-count posterior recorded at row t is non-negative, has
\* support on counts 1..t+1 (indices 0..t) only and sums to 1: the recursion
\* new[k] += C[k] * prev[k], new[k+1] += (1 - C[k]) * prev[k] keeps it a
\* distribution.
C7_ClusterCountPosteriorIsDistribution ==
    FitCalled => \A t \in CountRows : IsDistributionOver(num_clusters_posteriors[t], t)

\* A step t = 2 whose update spread the count posterior over counts 1, 2, 3.
C7_Witness ==
    /\ pc = "update"
    /\ obs_idx = 2
    /\ \A k \in 0..2 : RLess(Zero, num_clusters_posteriors[2][k])
    /\ RLess(Zero, num_clusters_posteriors[1][1])

\* No row of a tensor has been written since it was allocated as zeros.
AllZero(tensor) == \A i \in DOMAIN tensor : \A k \in DOMAIN tensor[i] : tensor[i][k] = Zero

\* C8: on a model whose likelihood is 'dirichlet_multinomial', a fit call
\* raises NotImplementedError before any observation is processed: no
\* call on the dynamics, no prior or posterior row written, no result bundle
\* stored or returned.
C8_DirichletMultinomialFailsFast ==
    (model = "constructed" /\ cfg.distribution = "dirichlet_multinomial") =>
        /\ _fit_results = None
        /\ FitCalled =>
            /\ pc = "raised"
            /\ err = NotImplementedError
            /\ dyn_calls = <<>>
            /\ dynamics = NoDynamics
            /\ obs_idx = 0
            /\ time_lookups = {}
            /\ AllZero(cluster_assignment_priors)
            /\ AllZero(num_clusters_posteriors)
            /\ DOMAIN probs = {}
            /\ ret = None

C8_Witness ==
    /\ model = "constructed"
    /\ cfg.distribution = "dirichlet_multinomial"
    /\ pc = "raised"
    /\ num_obs = 3
    /\ fits = 2

\* C9 as stated: no model instance with an unsupported likelihood
\* distribution name ever exists, construction fails on it.
C9_UnsupportedLikelihoodNeverConstructed ==
    model = "constructed" => cfg.distribution = "multivariate_normal"

\* C9 as amended: an unsupported likelihood distribution name is accepted by
\* the constructor and rejected by fit: every fit call on such an instance
\* raises NotImplementedError before any observation is processed, so the
\* instance never holds or returns a result.
C9_UnsupportedLikelihoodFailsAtFit ==
    (model = "constructed" /\ cfg.distribution # "multivariate_normal") =>
        /\ construct_err = None
        /\ _fit_results = None
        /\ ret = None
        /\ pc \in {"idle", "raised"}
        /\ pc = "raised" =>
            /\ err = NotImplementedError
            /\ obs_idx = 0
            /\ dyn_calls = <<>>

C9_Witness ==
    /\ model = "constructed"
    /\ cfg.distribution = "vonmises_fisher"
    /\ pc = "raised"
    /\ err = NotImplementedError

\* C10 as stated: with numerically_optimize = True every fit call, for every
\* N >= 1, fails: no fit ever completes.
C10_NumericalOptimizationNeverCompletes ==
    (model = "constructed" /\ cfg.numerically_optimize) => pc # "returned"

\* C10 as amended: with numerically_optimize = True, a fit that enters a
\* coordinate-ascent pass raises NotImplementedError there, before any
\* variational parameter is updated; only a fit that enters no pass, that of
\* a single observation, completes.
C10_NumericalOptimizationFailsAtFirstPass ==
    [][(model = "constructed" /\ cfg.numerically_optimize) =>
        /\ (pc = "ascent" /\ vi_idx < cfg.num_coord_ascent_steps_per_obs) =>
               /\ pc' = "raised"
               /\ err' = NotImplementedError
               /\ UNCHANGED <<tensor_vars, dyn_vars, _fit_results>>
        /\ vi_idx' = 0
        /\ pc' = "returned" =>
               (num_obs' = 1 \/ cfg.num_coord_ascent_steps_per_obs = 0)]_vars

C10_Witness ==
    /\ model = "constructed"
    /\ cfg.numerically_optimize
    /\ pc = "raised"
    /\ err = NotImplementedError
    /\ obs_idx = 1
    /\ cfg.distribution = "multivariate_normal"

\* C11: a constructor call that names an ordering of the coordinate updates
\* other than 'sequential' (such as 'simultaneous') is rejected with an error
\* at construction: it never yields a model.
C11_UnsupportedUpdateTypeRejected ==
    [][\A a \in InitArgs :
          (a.coord_ascent_update_type \notin {"absent", "sequential"} /\ Construct(a))
              => (model' = "none" /\ construct_err' # None)]_vars

\* C12: a constructor call with alpha <= 0 or beta # 0 fails with an error,
\* yields no model and creates no dynamics object; every constructed model
\* has alpha > 0 and beta = 0.
C12_ConcentrationParamsChecked ==
    [][\A a \in InitArgs : Construct(a) =>
          /\ (~RLess(Zero, a.alpha) \/ a.beta # 0)
                 => /\ model' = "none"
                    /\ construct_err' = AssertionError
                    /\ ~dynamics_created'
          /\ model' = "constructed"
                 => /\ RLess(Zero, cfg'.alpha)
                    /\ cfg'.beta = 0
                    /\ dynamics_created']_vars

\* C12 witness: a constructor call failed before the dynamics object was
\* created.
C12_Witness ==
    /\ model = "none"
    /\ construct_err = AssertionError
    /\ ~dynamics_created

\* C13: fit is all-or-nothing.  A fit call that raises returns no bundle and
\* leaves the stored bundle as it was; the stored bundle changes only in the
\* step that follows the processing of all N observations, and then to the
\* bundle of the tensors of this call.
C13_FitAllOrNothing ==
    [][/\ pc' = "raised" => (ret' = None /\ _fit_results' = _fit_results)
       /\ _fit_results' # _fit_results =>
              /\ pc = "loop"
              /\ obs_idx = num_obs
              /\ pc' = "returned"
              /\ _fit_results' = ResultBundle']_vars

\* C13 witness: a fit call raised inside the loop on a model that holds the
\* bundle of an earlier, completed call.
C13_Witness ==
    /\ fits = 2
    /\ pc = "raised"
    /\ obs_idx >= 1
    /\ _fit_results # None
    /\ _fit_results.cluster_assignment_posteriors # probs

\* A parameter tensor with another value stored at row r, slot k.
Perturb(tensor, r, k, x) == [tensor EXCEPT ![r][k] = x]

\* The values put in place of a stored mean or covariance.
PerturbValues == {Rat(3, 1), Rat(7, 1)}

\* The rows the parameter update of step obs_idx writes do not depend on what
\* row obs_idx - 1 of means and stddevs holds at slot k.
ParamUpdateIgnoresSlot(k) ==
    \A x \in PerturbValues :
        /\ OptimizeClusterParamsStddevs(Perturb(stddevs, obs_idx - 1, k, x), probs,
                                        obs_idx, SigmaObsSquared)[obs_idx]
               = OptimizeClusterParamsStddevs(stddevs, probs, obs_idx,
                                              SigmaObsSquared)[obs_idx]
        /\ OptimizeClusterParamsMeans(Perturb(means, obs_idx - 1, k, x), stddevs,
                                      probs, observations, obs_idx,
                                      SigmaObsSquared)[obs_idx]
               = OptimizeClusterParamsMeans(means, stddevs, probs, observations,
                                            obs_idx, SigmaObsSquared)[obs_idx]

\* Every slot beyond the row's own index holds the values the tensors were
\* allocated with.
InactiveSlotsHoldFillValues ==
    \A r \in DOMAIN means : \A k \in DOMAIN means[r] :
        k > r => /\ means[r][k] = Zero
                 /\ stddevs[r][k] = Rat(CentroidsPriorCovPrefactor, 1)

C15_CentroidsAccessorReturnsMeans ==
    features_call # None =>
        /\ features_call.err = None
        /\ features_call.ret = means[num_obs - 1]

UnnormalizedTotal == RAdd(RSum(dynamics.N, 0, num_obs - 1), cfg.alpha)

Denominator ==
    RSum(AddNewTableProb(cluster_assignment_prior, cfg.alpha,
                         num_clusters_posteriors[obs_idx - 1], obs_idx),
         0, num_obs - 1)

ProtocolOp(i) ==
    IF i = 1 THEN "initialize_state"
    ELSE IF i % 2 = 0 THEN "run_dynamics" ELSE "update_state"
ProtocolStep(i) == i \div 2

TimeSeries ==
    <<cluster_assignment_priors, probs, num_clusters_posteriors, means, stddevs>>

\* A step of the loop leaves every row but row obs_idx of the five series as
\* it is, and does not decrease the step index.
WritesOwnRowOnly ==
    pc \in {"loop", "prior", "init", "ascent", "update"} =>
        /\ obs_idx' >= obs_idx
        /\ \A i \in 1..Len(TimeSeries) :
               /\ DOMAIN TimeSeries'[i] = DOMAIN TimeSeries[i]
               /\ \A r \in DOMAIN TimeSeries[i] :
                      r # obs_idx => (TimeSeries'[i][r] = TimeSeries[i][r])

\* C20: a step of the loop writes only row obs_idx of the prior, posterior,
\* count-posterior, mean and stddev series, and the step index never
\* decreases: the rows of the steps that have finished stay as they are.
C20_NoBacktracking == [][WritesOwnRowOnly]_vars

\* C20 witness: step 1 has written row 1 of the prior, posterior and
\* count-posterior series, and rows 0 are as step 0 left them.
C20_Witness ==
    /\ pc = "update"
    /\ obs_idx = 1
    /\ RLess(Zero, cluster_assignment_priors[1][1])
    /\ RLess(Zero, probs[1][1])
    /\ RLess(Zero, num_clusters_posteriors[1][1])
    /\ cluster_assignment_priors[0] = OneHotZero(num_obs)
    /\ probs[0] = OneHotZero(num_obs)
    /\ num_clusters_posteriors[0] = OneHotZero(num_obs)
    /\ means[0][0] = observations[0]

\* Step obs_idx >= 1 of a fit that is not numerically optimized has entered
\* its coordinate ascent: the fit is there, or it has raised after the
\* step's assignment probabilities were seeded with the prior.
AscentEntered ==
    /\ model = "constructed"
    /\ ~cfg.numerically_optimize
    /\ 1 <= obs_idx /\ obs_idx < num_obs
    /\ \/ pc \in {"ascent", "update"}
       \/ /\ pc = "raised"
          /\ err \in {RuntimeError, AssertionError}
          /\ probs[obs_idx] # Full(num_obs, Zero)

\* C21: every step t > 0 of a fit that is not numerically optimized runs
\* exactly num_coord_ascent_steps_per_obs passes, none of which raises, and
\* the count posterior and the dynamics are updated only after the last.
C21_ConfiguredPassesRun ==
    AscentEntered =>
        /\ pc # "raised"
        /\ pc = "update" => vi_idx = cfg.num_coord_ascent_steps_per_obs
        /\ vi_idx <= cfg.num_coord_ascent_steps_per_obs

\* C22: at every step 1 <= t <= N - 1 the three operands of the mean update
\* range over the same t + 1 slots, so the update is well-formed and raises
\* no shape error.
C22_MeanUpdateShapesAgree ==
    /\ err # RuntimeError
    /\ (pc = "ascent" /\ vi_idx < cfg.num_coord_ascent_steps_per_obs) =>
           /\ MeanUpdateOperandRows(num_obs, obs_idx).term_one = obs_idx + 1
           /\ MeanUpdateOperandRows(num_obs, obs_idx).probs = obs_idx + 1
           /\ MeanUpdateOperandRows(num_obs, obs_idx).observation = obs_idx + 1
           /\ NewMeansRows(num_obs, obs_idx) = obs_idx + 1

\* The stddevs and the means one more application of the parameter update
\* of step obs_idx gives, from given tensors.
StddevsAfterUpdate(st) ==
    OptimizeClusterParamsStddevs(st, probs, obs_idx, SigmaObsSquared)
MeansAfterUpdate(me, st) ==
    OptimizeClusterParamsMeans(me, st, probs, observations, obs_idx, SigmaObsSquared)

TablesOpened(m, c) ==
    CHOOSE k \in 1..sample_args.num_customer : num_tables_by_customer[m][c][k - 1] = 1

\* Customer c of Monte Carlo sample m has been seated.
Seated(m, c) ==
    /\ m \in 0..(sample_args.num_mc_samples - 1)
    /\ c \in 0..(sample_args.num_customer - 1)
    /\ \/ c = 0
       \/ m < mc_sample_idx
       \/ m = mc_sample_idx /\ sample_pc = "customer" /\ c < cstmr_idx

\* The tables the customers 0..c of Monte Carlo sample m sit at.
TablesUsed(m, c) == {customer_assignments_by_customer[m][j] : j \in 0..c}

\* Customer c >= 1 of Monte Carlo sample m was seated in order.
SeatedInOrder(m, c) ==
    LET before == TablesOpened(m, c - 1)
        after == TablesOpened(m, c)
        customer_assignment == customer_assignments_by_customer[m][c]
    IN  /\ customer_assignment <= before
        /\ customer_assignment < c + 1
        /\ before <= c
        /\ before \in 0..(sample_args.num_customer - 1)
        /\ after \in {before, before + 1}
        /\ TablesUsed(m, c) = 0..(after - 1)
        /\ one_hot_customer_assignments_by_customer[m][c] =
               [k \in 0..(sample_args.num_customer - 1) |->
                   IF k = customer_assignment THEN 1 ELSE 0]

\* C24: in sample_rncrp, for every Monte Carlo sample, customer 0 sits at
\* table 0 and every customer c >= 1 is seated in order: the sampled table
\* is at most the number of tables open so far, that number never decreases,
\* grows by at most one per customer and is at most c when alpha is written
\* at the new-table slot, so the write stays within 0..num_customer-1, the
\* tables in use have no gaps, and neither the assertion
\* customer_assignment < c + 1 nor any other statement of the loop raises.
C24_TablesOpenedInOrder ==
    /\ sample_pc = "raised" => SampleArgsError(sample_args) # None
    /\ sample_pc \in {"mc", "customer", "returned"} =>
          /\ \A m \in 0..(sample_args.num_mc_samples - 1) :
                 /\ customer_assignments_by_customer[m][0] = 0
                 /\ one_hot_customer_assignments_by_customer[m][0][0] = 1
                 /\ TablesOpened(m, 0) = 1
                 /\ \A c \in 1..(sample_args.num_customer - 1) :
                        Seated(m, c) =>
                            /\ Cardinality({k \in 0..(sample_args.num_customer - 1) :
                                   num_tables_by_customer[m][c][k] = 1}) = 1
                            /\ SeatedInOrder(m, c)
          /\ sample_pc = "customer" =>
                 /\ new_table_idx = TablesOpened(mc_sample_idx, cstmr_idx - 1)
                 /\ cstmr_idx < sample_args.num_customer =>
                        /\ new_table_idx <= cstmr_idx
                        /\ new_table_idx \in 0..(sample_args.num_customer - 1)

\* A call returned in which some Monte Carlo sample opened a table for every
\* customer and another seated every customer at table 0.
C24_Witness ==
    /\ sample_pc = "returned"
    /\ sample_args.num_customer = MaxCustomers
    /\ \E m \in 0..(sample_args.num_mc_samples - 1) :
           \A c \in 0..(MaxCustomers - 1) : customer_assignments_by_customer[m][c] = c
    /\ \E m \in 0..(sample_args.num_mc_samples - 1) :
           \A c \in 0..(MaxCustomers - 1) : customer_assignments_by_customer[m][c] = 0


====
